---- MODULE Spec2Model ----
(***************************************************************************)
(* Design-request intake pipeline of server.js: validation, record         *)
(* construction, local ledger (data/requests.json), PDF rendering, upload  *)
(* to object storage, mirror insert, response; plus the administrative     *)
(* listing.  Every `await` of the route handler is a scheduling point, so  *)
(* each handler is split into one action per await.                        *)
(*                                                                         *)
(* Text is a sequence of one-character strings ("NUL" stands for \0).      *)
(***************************************************************************)
EXTENDS Integers, Sequences, FiniteSets, TLC

(* ------------------------------ bounds -------------------------------- *)
\* number of submissions (POST /api/submit-request) in one run
NSubs == 2
\* Date.now() takes the values 1..MaxClock
MaxClock == 2
\* number of local file-system faults (failed readFile / writeFile) in one run
MaxFaults == 1
\* number of administrative listings (GET /api/requests) in one run
MaxLists == 1
\* length of the short artifact names handed to the upload
MaxNameLen == 4

Subs == 1..NSubs

(* --------------------------- text helpers ----------------------------- *)
\* the value undefined of a field the form left out (no text equals it)
Absent == <<"undefined">>

WS == {" ", "\t", "\n"}

RECURSIVE LTrim(_)
LTrim(s) == IF s # <<>> /\ Head(s) \in WS THEN LTrim(Tail(s)) ELSE s

RECURSIVE RTrim(_)
RTrim(s) ==
    IF s # <<>> /\ s[Len(s)] \in WS THEN RTrim(SubSeq(s, 1, Len(s) - 1)) ELSE s

\* a chain without .trim(): the value is checked as posted
Trim_None(s) == s

\* String.prototype.trim / express-validator .trim()
Trim(s) == RTrim(LTrim(s))

\* the concatenation of f[c] for the characters c of s, in order (a
\* character-wise String.prototype.replace); the text is split in halves
RECURSIVE FlatMap(_, _)
FlatMap(f, s) ==
    IF s = <<>> THEN <<>>
    ELSE IF Len(s) = 1 THEN f[s[1]]
    ELSE LET h == Len(s) \div 2
         IN FlatMap(f, SubSeq(s, 1, h)) \o FlatMap(f, SubSeq(s, h + 1, Len(s)))

Chars ==
    { "a","b","c","d","e","f","g","h","i","j","k","l","m","n","o","p","q","r",
      "s","t","u","v","w","x","y","z","A","B","E","F","L","0","1","2","3","5","+",
      "-",".",",","@","&","<",">","/",";","#"," ","\t","\n","NUL",
      "BEL","VT","ESC","DEL" }

\* validator.escape: & < > " ' / \ ` become HTML entities
EscapeChar ==
    [c \in Chars |->
        CASE c = "&" -> <<"&","a","m","p",";">>
          [] c = "<" -> <<"&","l","t",";">>
          [] c = ">" -> <<"&","g","t",";">>
          [] c = "/" -> <<"&","#","x","2","F",";">>
          [] OTHER   -> <<c>>]

Escape(s) ==
    IF \A i \in 1..Len(s) : s[i] \notin {"&", "<", ">", "/"}
    THEN s                       \* nothing to replace
    ELSE FlatMap(EscapeChar, s)

Lower ==
    [c \in Chars |->
        CASE c = "A" -> "a" [] c = "B" -> "b" [] c = "E" -> "e" [] c = "F" -> "f"
          [] c = "L" -> "l"
          [] OTHER -> c]

\* validator.normalizeEmail: the address is lower-cased
NormalizeEmail(s) == [i \in 1..Len(s) |-> Lower[s[i]]]

IndexOf(s, c) ==
    IF \E i \in 1..Len(s) : s[i] = c
    THEN CHOOSE i \in 1..Len(s) : s[i] = c /\ \A j \in 1..(i - 1) : s[j] # c
    ELSE 0

Count(s, c) == Cardinality({i \in 1..Len(s) : s[i] = c})

\* validator.isEmail, to the precision the inputs need: one "@", a non-empty
\* local part, a dotted domain with non-empty labels, no blank or markup
IsEmail(s) ==
    /\ Count(s, "@") = 1
    /\ \A i \in 1..Len(s) : s[i] \notin WS \cup {"<", ">", ",", ";", "NUL"}
    /\ LET at == IndexOf(s, "@")
           dom == SubSeq(s, at + 1, Len(s))
       IN /\ at > 1
          /\ Len(dom) >= 3
          /\ Count(dom, ".") >= 1
          /\ dom[1] # "." /\ dom[Len(dom)] # "."
          /\ \A i \in 1..(Len(dom) - 1) : ~(dom[i] = "." /\ dom[i + 1] = ".")

(* ---------------------------- vocabularies ---------------------------- *)
\* a list of project types that also lets "blog" through
ProjectTypes_Open ==
    { <<"w","e","b","s","i","t","e">>,
      <<"r","e","d","e","s","i","g","n">>,
      <<"l","a","n","d","i","n","g">>,
      <<"e","c","o","m","m","e","r","c","e">>,
      <<"o","t","h","e","r">>,
      <<"b","l","o","g">> }

ProjectTypes ==
    { <<"w","e","b","s","i","t","e">>,
      <<"r","e","d","e","s","i","g","n">>,
      <<"l","a","n","d","i","n","g">>,
      <<"e","c","o","m","m","e","r","c","e">>,
      <<"o","t","h","e","r">> }

Timelines ==
    { <<"a","s","a","p">>,
      <<"1","m","o","n","t","h">>,
      <<"2","-","3","m","o","n","t","h","s">>,
      <<"f","l","e","x","i","b","l","e">> }

Budgets ==
    { <<"2","0","0","-","5","0","0">>,
      <<"5","0","0","-","1","0","0","0">>,
      <<"1","0","0","0","-","2","5","0","0">>,
      <<"2","5","0","0","-","5","0","0","0">>,
      <<"5","0","0","0","+">> }

Styles ==
    { <<"m","o","d","e","r","n">>,
      <<"m","i","n","i","m","a","l","i","s","t">>,
      <<"b","o","l","d">>,
      <<"p","r","o","f","e","s","s","i","o","n","a","l">>,
      <<"c","r","e","a","t","i","v","e">>,
      <<"e","l","e","g","a","n","t">>,
      <<"p","l","a","y","f","u","l">>,
      <<"r","u","s","t","i","c">>,
      <<"i","n","d","u","s","t","r","i","a","l">>,
      <<"v","i","n","t","a","g","e">>,
      <<"l","u","x","u","r","y">>,
      <<"t","e","c","h">>,
      <<"c","o","r","p","o","r","a","t","e">>,
      <<"a","r","t","i","s","t","i","c">>,
      <<"c","l","e","a","n">>,
      <<>> }

(* --------------------------- sanitization ----------------------------- *)
\* tags of the xss library's default white list that the inputs use
WhiteListTags == { <<"b">>, <<"i">>, <<"a">>, <<"p">> }

TagName(tag) ==
    LET inner == SubSeq(tag, 2, Len(tag) - 1)
        body  == IF inner # <<>> /\ Head(inner) = "/" THEN Tail(inner) ELSE inner
        sp    == IndexOf(body, " ")
    IN IF sp = 0 THEN body ELSE SubSeq(body, 1, sp - 1)

\* xss(): a white-listed tag is kept, any other "<" or ">" is escaped
RECURSIVE Xss(_)
Xss(s) ==
    IF s = <<>> THEN <<>>
    ELSE IF Head(s) = "<"
    THEN LET j == IndexOf(s, ">")
         IN IF j = 0
            THEN <<"&","l","t",";">> \o Xss(Tail(s))
            ELSE IF TagName(SubSeq(s, 1, j)) \in WhiteListTags
                 THEN SubSeq(s, 1, j) \o Xss(SubSeq(s, j + 1, Len(s)))
                 ELSE <<"&","l","t",";">> \o SubSeq(s, 2, j - 1)
                          \o <<"&","g","t",";">> \o Xss(SubSeq(s, j + 1, Len(s)))
    ELSE IF Head(s) = ">"
    THEN <<"&","g","t",";">> \o Xss(Tail(s))
    ELSE <<Head(s)>> \o Xss(Tail(s))

StripNul(s) == SelectSeq(s, LAMBDA c : c # "NUL")

\* sanitizeInput (the argument is always a string in the route handler)
sanitizeInput(input) ==
    LET s == StripNul(input)
    IN IF \A i \in 1..Len(s) : s[i] \notin {"<", ">"}
       THEN s                    \* no markup: xss returns the text as it is
       ELSE Xss(s)

(* ---------------------------- validation ------------------------------ *)
NameMaxLen == 100
EmailMaxLen == 255
PhoneMaxLen == 20
DescMinLen == 10
DescMaxLen == 5000
RefMaxLen == 2000
RefFallbackLen == 100
ColorMaxLen == 200
FeaturesMaxLen == 2000

Digits == {"0","1","2","3","4","5","6","7","8","9"}
PhoneChars == Digits \cup WS \cup {"-", "(", ")", "+", "."}

RequiredFields ==
    <<"clientName", "email", "projectType", "timeline", "budget", "designDescription">>
OptionalFields ==
    <<"phoneNumber", "referenceWebsites", "colorPreferences", "stylePreferences",
      "keyFeatures">>
AllFields == {RequiredFields[i] : i \in 1..6} \cup {OptionalFields[i] : i \in 1..5}

\* the string a validation chain sees: a missing required field reads as ''
Val(b, f) == IF b[f] = Absent THEN <<>> ELSE b[f]

\* value.split(/[\n,]/).map(url => url.trim()).filter(url => url)
RECURSIVE SplitEntries(_, _)
SplitEntries(s, cur) ==
    IF s = <<>>
    THEN IF Trim(cur) = <<>> THEN <<>> ELSE <<Trim(cur)>>
    ELSE IF Head(s) \in {"\n", ","}
    THEN (IF Trim(cur) = <<>> THEN <<>> ELSE <<Trim(cur)>>) \o SplitEntries(Tail(s), <<>>)
    ELSE SplitEntries(Tail(s), Append(cur, Head(s)))

\* validator.isURL(url, { require_protocol: false }), to the precision needed
\* for entries of RefFallbackLen characters or more
IsURL(e) ==
    /\ Count(e, ".") >= 1
    /\ \A i \in 1..Len(e) : e[i] \notin WS \cup {"<", ">"}

Viol(f, m) == <<[field |-> f, msg |-> m]>>
Check(ok, f, m) == IF ok THEN <<>> ELSE Viol(f, m)

\* chains that stop at the first violation of the form
validateSubmitRequest_FirstOnly(b) ==
    LET name == Trim(Val(b, "clientName"))
    IN IF Len(name) < 1 \/ Len(name) > NameMaxLen
       THEN Viol("clientName", "Name must be between 1 and 100 characters")
       ELSE IF ~IsEmail(Trim(Val(b, "email")))
       THEN Viol("email", "Invalid email address")
       ELSE IF Trim(Val(b, "projectType")) \notin ProjectTypes
       THEN Viol("projectType", "Invalid project type")
       ELSE IF Trim(Val(b, "timeline")) \notin Timelines
       THEN Viol("timeline", "Invalid timeline selection")
       ELSE IF Trim(Val(b, "budget")) \notin Budgets
       THEN Viol("budget", "Invalid budget selection")
       ELSE IF Len(Trim(Val(b, "designDescription"))) < DescMinLen
               \/ Len(Trim(Val(b, "designDescription"))) > DescMaxLen
       THEN Viol("designDescription", "Description must be between 10 and 5000 characters")
       ELSE IF b["stylePreferences"] # Absent /\ Trim(b["stylePreferences"]) \notin Styles
       THEN Viol("stylePreferences", "Invalid style preference selection")
       ELSE <<>>

\* validateSubmitRequest: every chain runs, every failing validator of a chain
\* adds its message; an optional chain is skipped when the field is undefined
validateSubmitRequest(b) ==
    LET name  == Trim(Val(b, "clientName"))
        email == Trim(Val(b, "email"))
        ptype == Trim(Val(b, "projectType"))
        tl    == Trim(Val(b, "timeline"))
        bud   == Trim(Val(b, "budget"))
        desc  == Trim(Val(b, "designDescription"))
        phone == Trim(Val(b, "phoneNumber"))
        refs  == Trim(Val(b, "referenceWebsites"))
        color == Trim(Val(b, "colorPreferences"))
        style == Trim(Val(b, "stylePreferences"))
        feats == Trim(Val(b, "keyFeatures"))
        ents  == SplitEntries(refs, <<>>)
    IN   Check(Len(name) >= 1 /\ Len(name) <= NameMaxLen, "clientName",
               "Name must be between 1 and 100 characters")
      \o Check(IsEmail(email), "email", "Invalid email address")
      \o Check(Len(NormalizeEmail(email)) <= EmailMaxLen, "email", "Email too long")
      \o (IF b["phoneNumber"] = Absent THEN <<>> ELSE
             Check(Len(phone) <= PhoneMaxLen, "phoneNumber", "Phone number too long")
          \o Check(phone = <<>> \/ \A i \in 1..Len(phone) : phone[i] \in PhoneChars,
                   "phoneNumber", "Invalid phone number format"))
      \o Check(ptype \in ProjectTypes, "projectType", "Invalid project type")
      \o Check(tl \in Timelines, "timeline", "Invalid timeline selection")
      \o Check(bud \in Budgets, "budget", "Invalid budget selection")
      \o Check(Len(desc) >= DescMinLen /\ Len(desc) <= DescMaxLen, "designDescription",
               "Description must be between 10 and 5000 characters")
      \o (IF b["referenceWebsites"] = Absent THEN <<>> ELSE
             Check(Len(refs) <= RefMaxLen, "referenceWebsites",
                   "Reference websites too long")
          \o Check(refs = <<>> \/ \A i \in 1..Len(ents) :
                       IsURL(ents[i]) \/ Len(ents[i]) < RefFallbackLen,
                   "referenceWebsites", "Invalid URL in reference websites"))
      \o (IF b["colorPreferences"] = Absent THEN <<>> ELSE
             Check(Len(color) <= ColorMaxLen, "colorPreferences",
                   "Color preferences too long"))
      \o (IF b["stylePreferences"] = Absent THEN <<>> ELSE
             Check(style \in Styles, "stylePreferences",
                   "Invalid style preference selection"))
      \o (IF b["keyFeatures"] = Absent THEN <<>> ELSE
             Check(Len(feats) <= FeaturesMaxLen, "keyFeatures", "Key features too long"))

\* req.body after the chains' sanitizers (trim, normalizeEmail, escape)
SanitizedBody(b) ==
    [f \in AllFields |->
        IF b[f] = Absent
        THEN (IF f \in {RequiredFields[i] : i \in 1..6} THEN <<>> ELSE Absent)
        ELSE CASE f \in {"clientName", "designDescription", "phoneNumber",
                         "colorPreferences", "stylePreferences", "keyFeatures"}
                    -> Escape(Trim(b[f]))
               [] f = "email" -> NormalizeEmail(Trim(b[f]))
               [] OTHER -> Trim(b[f])]

(* ------------------------------ inputs -------------------------------- *)
NoOptionals ==
    [phoneNumber |-> Absent, referenceWebsites |-> Absent, colorPreferences |-> Absent,
     stylePreferences |-> Absent, keyFeatures |-> Absent]

\* a valid form with the optional fields left out
BodyAnn ==
    [clientName |-> <<"A","n","n"," ","L","e","e">>,
     email |-> <<"a","n","n","@","E","x",".","c","o">>,
     projectType |-> <<"w","e","b","s","i","t","e">>,
     timeline |-> <<"a","s","a","p">>,
     budget |-> <<"2","0","0","-","5","0","0">>,
     designDescription |->
        <<"a"," ","s","m","a","l","l"," ","s","h","o","p"," ","s","i","t","e">>]
    @@ NoOptionals

\* a valid form with blanks to trim, markup to neutralize and optional fields
BodyBob ==
    [clientName |-> <<" ","B","o","b"," ">>,
     email |-> <<"b","o","b","@","e","x",".","c","o">>,
     phoneNumber |-> <<"+","1"," ","5","5","5">>,
     projectType |-> <<"l","a","n","d","i","n","g">>,
     timeline |-> <<"f","l","e","x","i","b","l","e">>,
     budget |-> <<"5","0","0","0","+">>,
     designDescription |->
        <<" "," ","a"," ","b","l","o","g"," ","f","o","r"," ","<","b",">","m","e",
          "<","/","b",">"," ">>,
     referenceWebsites |-> <<"e","x",".","c","o",","," ","<","i",">","x","<","/","i",">">>,
     colorPreferences |-> <<"b","l","u","e"," ","&"," ","w","h","i","t","e">>,
     stylePreferences |-> <<"m","o","d","e","r","n">>,
     keyFeatures |-> Absent]

\* a form with three violations: blank name, unknown budget, short description
BodyBad ==
    [clientName |-> <<" "," "," ">>,
     email |-> <<"a","n","n","@","E","x",".","c","o">>,
     projectType |-> <<"w","e","b","s","i","t","e">>,
     timeline |-> <<"a","s","a","p">>,
     budget |-> <<"f","r","e","e">>,
     designDescription |-> <<"t","o","o"," ","s","h","o","r","t">>]
    @@ NoOptionals

\* the valid form with a name that is one NUL character ("\u0000" in the JSON
\* body): trim() keeps it, isLength({ min: 1 }) counts it, escape() keeps it
BodyNul == [BodyAnn EXCEPT !.clientName = <<"NUL">>]

Bodies == {BodyAnn, BodyBob, BodyBad, BodyNul}

(* -------------------------- request record ---------------------------- *)
\* x?.trim() || ''
TrimOrEmpty(v) == IF v = Absent THEN <<>> ELSE Trim(v)

\* Date.now().toString(): the decimal digits of the clock value (the clock of
\* the model stays below 10, so there is one digit)
DateNowString(t) == <<ToString(t)>>

\* new Date().toISOString(): an injective rendering of the same instant
ISOString(t) == <<"iso", t>>

\* the request object of the route handler (lines 503-518); it has no pdfUrl
\* property until the upload succeeds
BuildRequest(b, t) ==
    LET sb == SanitizedBody(b)
    IN [id |-> DateNowString(t),
        clientName |-> sanitizeInput(TrimOrEmpty(sb["clientName"])),
        email |-> sanitizeInput(TrimOrEmpty(sb["email"])),
        phoneNumber |-> sanitizeInput(TrimOrEmpty(sb["phoneNumber"])),
        projectType |-> sanitizeInput(TrimOrEmpty(sb["projectType"])),
        timeline |-> sanitizeInput(TrimOrEmpty(sb["timeline"])),
        budget |-> sanitizeInput(TrimOrEmpty(sb["budget"])),
        designDescription |-> sanitizeInput(TrimOrEmpty(sb["designDescription"])),
        referenceWebsites |-> sanitizeInput(TrimOrEmpty(sb["referenceWebsites"])),
        colorPreferences |-> sanitizeInput(TrimOrEmpty(sb["colorPreferences"])),
        stylePreferences |-> sanitizeInput(TrimOrEmpty(sb["stylePreferences"])),
        keyFeatures |-> sanitizeInput(TrimOrEmpty(sb["keyFeatures"])),
        status |-> "pending_review",
        createdAt |-> ISOString(t)]

(* ------------------------------ renderer ------------------------------ *)
\* characters of the class [\x00-\x08\x0B\x0C\x0E-\x1F\x7F] that the inputs use
\* (tab and line feed are outside the class)
PdfUnsafeChars == {"NUL", "BEL", "VT", "ESC", "DEL"}

\* .substring(0, 10000)
PdfMaxLen == 10000

\* values whose typeof is not 'string'
NonStrings == { <<"undefined">>, <<"null">> }

\* a sanitizeForPDF without .substring(0, 10000)
sanitizeForPDF_NoCap(input) ==
    IF input \in NonStrings THEN <<>>
    ELSE SelectSeq(input, LAMBDA c : c \notin PdfUnsafeChars)

\* sanitizeForPDF
sanitizeForPDF(input) ==
    IF input \in NonStrings THEN <<>>
    ELSE LET kept == SelectSeq(input, LAMBDA c : c \notin PdfUnsafeChars)
         IN IF Len(kept) <= PdfMaxLen THEN kept ELSE SubSeq(kept, 1, PdfMaxLen)

\* x || '' for a field x of the record
OrEmpty(x) == IF x \in NonStrings THEN <<>> ELSE x

\* new Date(createdAt).toLocaleString(): a rendering of the same instant
LocaleString(createdAt) == <<"local", ToString(createdAt[2])>>

\* one doc.text(...) call: the font size, the fixed text, the inserted value
TextCall(size, label, value) == [size |-> size, label |-> label, text |-> value]

NoDoc == <<>>

\* a block that is written whatever the value is
IfShown_Always(value, calls) == calls

\* if (value) { calls }: the calls are made when the text is not ''
IfShown(value, calls) == IF value # <<>> THEN calls ELSE <<>>

\* generatePDF: the text() calls in the order they are made
generatePDF(r) ==
    LET safeClientName  == sanitizeForPDF(OrEmpty(r.clientName))
        safeEmail       == sanitizeForPDF(OrEmpty(r.email))
        safePhoneNumber == sanitizeForPDF(OrEmpty(r.phoneNumber))
        safeProjectType == sanitizeForPDF(OrEmpty(r.projectType))
        safeTimeline    == sanitizeForPDF(OrEmpty(r.timeline))
        safeBudget      == sanitizeForPDF(OrEmpty(r.budget))
        safeDescription == sanitizeForPDF(OrEmpty(r.designDescription))
        safeColorPrefs  == sanitizeForPDF(OrEmpty(r.colorPreferences))
        safeStylePrefs  == sanitizeForPDF(OrEmpty(r.stylePreferences))
        safeKeyFeatures == sanitizeForPDF(OrEmpty(r.keyFeatures))
        safeRefWebsites == sanitizeForPDF(OrEmpty(r.referenceWebsites))
        safeId          == sanitizeForPDF(OrEmpty(r.id))
    IN  << TextCall(24, "Design Request Submission", <<>>),
           TextCall(10, "Submitted: ", LocaleString(r.createdAt)),
           TextCall(16, "Client Information", <<>>),
           TextCall(12, "Name: ", safeClientName),
           TextCall(12, "Email: ", safeEmail) >>
        \o IfShown(safePhoneNumber, << TextCall(12, "Phone: ", safePhoneNumber) >>)
        \o << TextCall(16, "Project Details", <<>>),
              TextCall(12, "Project Type: ", safeProjectType),
              TextCall(12, "Timeline: ", safeTimeline),
              TextCall(12, "Budget Range: $", safeBudget),
              TextCall(16, "Project Description", <<>>),
              TextCall(11, "", safeDescription) >>
        \* if (safeColorPrefs || safeStylePrefs)
        \o IfShown(safeColorPrefs \o safeStylePrefs,
              << TextCall(16, "Design Preferences", <<>>) >>
              \o IfShown(safeColorPrefs,
                    << TextCall(12, "Color Preferences: ", safeColorPrefs) >>)
              \o IfShown(safeStylePrefs,
                    << TextCall(12, "Style Preferences: ", safeStylePrefs) >>))
        \o IfShown(safeKeyFeatures,
              << TextCall(16, "Key Features Required", <<>>),
                 TextCall(11, "", safeKeyFeatures) >>)
        \o IfShown(safeRefWebsites,
              << TextCall(16, "Reference Websites", <<>>),
                 TextCall(11, "", safeRefWebsites) >>)
        \o << TextCall(8, "Request ID: ", safeId) >>

(* ------------------------ program constants --------------------------- *)
\* const maxSize = 10 * 1024 * 1024
MaxPdfSize == 10485760

NoKey == "null"
AdminSecret == "secret"
Null == <<"null">>

NoRequest == [id |-> "none"]
NoName == <<>>
NoResponse == [status |-> 0]

Modes == {"standalone", "serverless"}

(* ------------------------------ state --------------------------------- *)
VARIABLES
    mode,        \* how the app was started: node server.js, or required by api/index.js
    supabase,    \* TRUE iff the Supabase client was created (lines 25-31)
    adminKey,    \* ADMIN_API_KEY, NoKey when not configured
    started,     \* TRUE once the app serves requests
    dirExists,   \* the data directory exists
    fileState,   \* data/requests.json: "absent", "corrupt" (not parsable) or "json"
    fileData,    \* the array stored in data/requests.json when fileState = "json"
    now,         \* Date.now()
    faults,      \* local file-system faults injected so far
    pc,          \* pc[s]: the await the handler of submission s is suspended at
    body,        \* body[s]: the form submission s posted
    request,     \* request[s]: the handler's request object
    requests,    \* requests[s]: the serialized array handed to writeRequests
    fileName,    \* fileName[s]: the artifact name being uploaded
    doc,         \* doc[s]: the text() calls made on the PDF document of submission s
    response,    \* response[s]: what the caller received
    stage,       \* stage[s]: outcome of each stage of submission s and the message
                 \* of the last error its handler caught (history)
    storage,     \* object keys in the storage bucket
    mirror,      \* rows of the design_requests table
    okLog,       \* submissions in the order their success response was sent (history)
    overlapped,  \* TRUE once a submission arrived while another was in flight (history)
    lists,       \* listings served so far
    listResp,    \* response of the last GET /api/requests
    page         \* the form page in the browser: button, form, message and fetch

config == <<mode, supabase, adminKey>>
fsVars == <<dirExists, fileState, fileData>>
subVars == <<pc, body, request, requests, fileName, response>>
histVars == <<stage, okLog, overlapped>>
extVars == <<storage, mirror>>
listVars == <<lists, listResp>>
vars == <<config, started, fsVars, now, faults, subVars, doc, histVars, extVars, listVars,
          page>>

\* the label of the submit button in the page's markup
OriginalLabel == "Submit"

\* the page as loaded: the button enabled, the form as the visitor fills it,
\* no message, no fetch pending
PageIdle ==
    [disabled |-> FALSE, label |-> OriginalLabel, originalText |-> OriginalLabel,
     form |-> "filled", message |-> "none", fetch |-> "idle", sub |-> 0,
     data |-> [id |-> "none"]]

NoStage == [read |-> "none", write |-> "none", render |-> "none", upload |-> "none",
            mirror |-> "none", error |-> "none"]

InFlight(s) == pc[s] \notin {"idle", "done"}

Init ==
    /\ mode \in Modes
    /\ supabase \in BOOLEAN
    /\ adminKey \in {NoKey, AdminSecret}
    /\ started = (mode = "serverless")
    /\ \/ dirExists = FALSE /\ fileState = "absent"
       \/ dirExists = TRUE /\ fileState \in {"absent", "json"}
    /\ fileData = <<>>
    /\ now = 1
    /\ faults = 0
    /\ pc = [s \in Subs |-> "idle"]
    /\ body = [s \in Subs |-> NoRequest]
    /\ request = [s \in Subs |-> NoRequest]
    /\ requests = [s \in Subs |-> <<>>]
    /\ fileName = [s \in Subs |-> NoName]
    /\ doc = [s \in Subs |-> NoDoc]
    /\ page = PageIdle
    /\ response = [s \in Subs |-> NoResponse]
    /\ stage = [s \in Subs |-> NoStage]
    /\ storage = {}
    /\ mirror = {}
    /\ okLog = <<>>
    /\ overlapped = FALSE
    /\ lists = 0
    /\ listResp = NoResponse

(* ------------------------- local ledger file -------------------------- *)
\* readRequests: any failure of readFile or JSON.parse yields []
readRequests(state, data, ioError) ==
    IF ioError \/ state # "json" THEN <<>> ELSE data

\* what a reader of the ledger gets
Ledger == readRequests(fileState, fileData, FALSE)

\* ensureDataDir: mkdir when the directory is missing, then write [] when the
\* file is missing
ensureDataDir ==
    /\ dirExists' = TRUE
    /\ fileState' = IF fileState = "absent" THEN "json" ELSE fileState
    /\ fileData' = fileData

\* startServer (only when server.js is the main module)
StartServer ==
    /\ mode = "standalone"
    /\ ~started
    /\ ensureDataDir
    /\ started' = TRUE
    /\ UNCHANGED <<config, page, doc, now, faults, subVars, histVars, extVars, listVars>>

\* the clock advances
Tick ==
    /\ now < MaxClock
    /\ now' = now + 1
    /\ UNCHANGED <<config, page, doc, started, fsVars, faults, subVars, histVars, extVars, listVars>>

(* ---------------------- POST /api/submit-request ---------------------- *)
SuccessResponse ==
    [status |-> 200, success |-> TRUE, message |-> "Request submitted successfully"]

ValidationResponse(errs) ==
    [status |-> 400, error |-> "Validation failed",
     details |-> [i \in 1..Len(errs) |-> errs[i].msg]]

FailureResponse ==
    [status |-> 500,
     error |-> "An error occurred while processing your request. Please try again later."]

\* a handler that never looks at the validation result
HasErrors_Never(errs) == FALSE

\* !errors.isEmpty()
HasErrors(errs) == errs # <<>>

\* the validation chains, then the handler up to `await readRequests()`, for
\* the posted form b
SubmitBody(s, b) ==
    /\ started
    /\ pc[s] = "idle"
    /\ \A t \in Subs : t < s => pc[t] # "idle"   \* submissions are numbered by arrival
    /\ LET errs == validateSubmitRequest(b)
       IN /\ body' = [body EXCEPT ![s] = b]
          /\ IF HasErrors(errs)
             THEN /\ response' = [response EXCEPT ![s] = ValidationResponse(errs)]
                  /\ pc' = [pc EXCEPT ![s] = "done"]
                  /\ UNCHANGED request
             ELSE /\ request' = [request EXCEPT ![s] = BuildRequest(b, now)]
                  /\ pc' = [pc EXCEPT ![s] = "reading"]
                  /\ UNCHANGED response
    /\ overlapped' = (overlapped \/ \E t \in Subs \ {s} : InFlight(t))
    /\ UNCHANGED <<config, page, doc, started, fsVars, now, faults, requests, fileName, stage,
                   okLog, extVars, listVars>>

Submit(s) == \E b \in Bodies : SubmitBody(s, b)

\* outcome of the read as the history records it
ReadOutcome(ioError) ==
    IF ioError THEN "ioerror"
    ELSE IF fileState = "absent" THEN "missing"
    ELSE IF fileState = "corrupt" THEN "unparsable"
    ELSE "ok"

\* readRequests() settles; requests.push(request); writeRequests(requests) is
\* called and serializes the array
ReadDone(s) ==
    /\ pc[s] = "reading"
    /\ \E ioError \in BOOLEAN :
        /\ ioError => (faults < MaxFaults /\ fileState = "json")
        /\ faults' = IF ioError THEN faults + 1 ELSE faults
        /\ requests' = [requests EXCEPT ![s] =
               Append(readRequests(fileState, fileData, ioError), request[s])]
        /\ stage' = [stage EXCEPT ![s].read = ReadOutcome(ioError)]
    /\ pc' = [pc EXCEPT ![s] = "writing"]
    /\ UNCHANGED <<config, page, doc, started, fsVars, now, body, request, fileName, response,
                   okLog, overlapped, extVars, listVars>>

\* a handler whose outer catch logs the error and carries on with the PDF
OnSubmitError_Swallowed(s, error) ==
    /\ pc' = [pc EXCEPT ![s] = "rendering"]
    /\ UNCHANGED <<response, okLog>>

\* an outer catch that sends the message of the error it caught
OnSubmitError_Echo(s, error) ==
    /\ response' = [response EXCEPT ![s] = [status |-> 500, error |-> error]]
    /\ pc' = [pc EXCEPT ![s] = "done"]
    /\ okLog' = okLog

\* the outer catch of the handler: the error is logged, a generic 500 is sent
OnSubmitError(s, error) ==
    /\ response' = [response EXCEPT ![s] = FailureResponse]
    /\ pc' = [pc EXCEPT ![s] = "done"]
    /\ okLog' = okLog

\* writeFile succeeded: the handler logs and calls generatePDF
\* a handler that starts the upload without awaiting generatePDF
OnWriteOk_NoRender(s) ==
    /\ pc' = [pc EXCEPT ![s] = "uploading"]
    /\ UNCHANGED <<response, okLog>>

\* writeRequests resolved: the handler goes on to generatePDF(request)
OnWriteOk(s) ==
    /\ pc' = [pc EXCEPT ![s] = "rendering"]
    /\ UNCHANGED <<response, okLog>>

\* messages of the errors an injected writeFile fault rejects with
WriteErrors == {"EIO", "ENOSPC"}

\* fs.writeFile settles.  It fails when the directory is missing (ENOENT) or
\* on an injected fault, which leaves the file as it was or truncated.
WriteDone(s) ==
    /\ pc[s] = "writing"
    /\ \/ /\ dirExists
          /\ fileState' = "json"
          /\ fileData' = requests[s]
          /\ stage' = [stage EXCEPT ![s].write = "ok"]
          /\ OnWriteOk(s)
          /\ UNCHANGED <<dirExists, faults>>
       \/ /\ ~dirExists
          /\ stage' = [stage EXCEPT ![s].write = "failed", ![s].error = "ENOENT"]
          /\ OnSubmitError(s, "ENOENT")
          /\ UNCHANGED <<fsVars, faults>>
       \/ /\ dirExists
          /\ faults < MaxFaults
          /\ faults' = faults + 1
          /\ \E truncated \in BOOLEAN :
               /\ fileState' = IF truncated THEN "corrupt" ELSE fileState
               /\ fileData' = IF truncated THEN <<>> ELSE fileData
          /\ \E error \in WriteErrors :
               /\ stage' = [stage EXCEPT ![s].write = "failed", ![s].error = error]
               /\ OnSubmitError(s, error)
          /\ UNCHANGED dirExists
    /\ requests' = [requests EXCEPT ![s] = <<>>]   \* the array is garbage from here on
    /\ UNCHANGED <<config, page, doc, started, now, body, request, fileName, overlapped, extVars,
                   listVars>>

(* -------------------- rendering, upload, mirror ----------------------- *)
Letters ==
    { "a","b","c","d","e","f","g","h","i","j","k","l","m","n","o","p","q","r","s",
      "t","u","v","w","x","y","z","A","B","C","D","E","F","G","H","I","J","K","L",
      "M","N","O","P","Q","R","S","T","U","V","W","X","Y","Z" }

SafeFileChars == Letters \cup Digits \cup {".", "_", "-"}

FileNameMaxLen == 255

\* sanitizeFilename
sanitizeFilename(filename) ==
    LET kept == SelectSeq(filename, LAMBDA c : c \in SafeFileChars)
    IN SubSeq(kept, 1, IF Len(kept) < FileNameMaxLen THEN Len(kept) ELSE FileNameMaxLen)

\* `design-request-${request.id}-${Date.now()}.pdf`
MakeFileName(id, t) ==
    <<"d","e","s","i","g","n","-","r","e","q","u","e","s","t","-">> \o id \o <<"-">>
        \o DateNowString(t) \o <<".","p","d","f">>

\* `${supabaseUrl}/storage/v1/object/public/${supabaseBucket}/${fileName}`,
\* with "s","b","/" standing for the fixed prefix
PublicUrl(name) == <<"s","b","/">> \o name

\* buffers generatePDF can resolve with
RenderedBuffers ==
    { [isBuffer |-> TRUE, length |-> n] : n \in {1, MaxPdfSize, MaxPdfSize + 1} }

\* a size check that also turns away a buffer of exactly maxSize bytes
uploadPrecheck_Strict(pdfBuffer) ==
    IF ~pdfBuffer.isBuffer \/ pdfBuffer.length = 0 THEN "Invalid PDF buffer"
    ELSE IF pdfBuffer.length >= MaxPdfSize THEN "PDF file too large"
    ELSE "ok"

\* the checks of uploadPDFToSupabase before the storage call
uploadPrecheck(pdfBuffer) ==
    IF ~pdfBuffer.isBuffer \/ pdfBuffer.length = 0 THEN "Invalid PDF buffer"
    ELSE IF pdfBuffer.length > MaxPdfSize THEN "PDF file too large"
    ELSE "ok"

\* request.pdfUrl = pdfUrl
AttachPdfUrl(r, url) ==
    [f \in DOMAIN r \cup {"pdfUrl"} |-> IF f = "pdfUrl" THEN url ELSE r[f]]

HasPdfUrl(r) == "pdfUrl" \in DOMAIN r

\* x || null
OrNull(v) == IF v = <<>> THEN Null ELSE v

\* the row saveRequestToDatabase inserts
MirrorRow(r) ==
    [id |-> r.id,
     client_name |-> r.clientName,
     email |-> r.email,
     phone_number |-> OrNull(r.phoneNumber),
     project_type |-> r.projectType,
     timeline |-> r.timeline,
     budget |-> r.budget,
     design_description |-> r.designDescription,
     reference_websites |-> OrNull(r.referenceWebsites),
     color_preferences |-> OrNull(r.colorPreferences),
     style_preferences |-> OrNull(r.stylePreferences),
     key_features |-> OrNull(r.keyFeatures),
     status |-> r.status,
     pdf_url |-> IF HasPdfUrl(r) THEN OrNull(r.pdfUrl) ELSE Null,
     created_at |-> r.createdAt]

\* res.json({ success: true, ... })
RespondSuccess(s) ==
    /\ response' = [response EXCEPT ![s] = SuccessResponse]
    /\ pc' = [pc EXCEPT ![s] = "done"]
    /\ okLog' = Append(okLog, s)

\* a handler that calls saveRequestToDatabase without the `if (supabase)` guard
\* and without its try/catch: the missing client throws into the outer catch
ToMirror_Unguarded(s, st) ==
    IF supabase
    THEN /\ pc' = [pc EXCEPT ![s] = "mirroring"]
         /\ stage' = [stage EXCEPT ![s] = st]
         /\ UNCHANGED <<response, okLog>>
    ELSE /\ stage' = [stage EXCEPT ![s] =
                  [st EXCEPT !.mirror = "failed", !.error = "Supabase client not initialized"]]
         /\ OnSubmitError(s, "Supabase client not initialized")

\* lines 558-573 once the PDF block is over: the mirror insert is awaited when
\* the client exists, otherwise the success response is sent at once
ToMirror(s, st) ==
    IF supabase
    THEN /\ pc' = [pc EXCEPT ![s] = "mirroring"]
         /\ stage' = [stage EXCEPT ![s] = st]
         /\ UNCHANGED <<response, okLog>>
    ELSE /\ stage' = [stage EXCEPT ![s] = [st EXCEPT !.mirror = "skipped"]]
         /\ RespondSuccess(s)

\* an upload without its own try/catch: the error reaches the outer catch
OnUploadError_Rethrown(s, st) ==
    /\ stage' = [stage EXCEPT ![s] = st]
    /\ OnSubmitError(s, st.error)
    /\ UNCHANGED <<request, storage>>

\* a handler that sets request.pdfUrl before it knows the upload succeeded
OnUploadError_Attached(s, st) ==
    /\ request' = [request EXCEPT ![s] =
           AttachPdfUrl(request[s], PublicUrl(MakeFileName(request[s].id, now)))]
    /\ ToMirror(s, st)
    /\ UNCHANGED storage

\* the catch of a rejected uploadPDFToSupabase: log and continue
OnUploadError(s, st) ==
    /\ ToMirror(s, st)
    /\ UNCHANGED <<request, storage>>

\* a PDF block without its own try/catch: the rejection of generatePDF
\* reaches the outer catch
RenderFailed_Fatal(s) ==
    /\ pc[s] = "rendering"
    /\ stage' = [stage EXCEPT ![s].render = "failed", ![s].error = "pdf stream error"]
    /\ OnSubmitError(s, "pdf stream error")
    /\ UNCHANGED <<fileName, request, storage>>
    /\ UNCHANGED <<config, page, doc, started, fsVars, now, faults, body, requests, overlapped,
                   mirror, listVars>>

\* generatePDF rejects: the catch of the PDF block logs and the handler goes on
RenderFailed(s) ==
    /\ pc[s] = "rendering"
    /\ ToMirror(s, [stage[s] EXCEPT !.render = "failed", !.error = "pdf stream error"])
    /\ UNCHANGED <<fileName, request, storage>>
    /\ UNCHANGED <<config, page, doc, started, fsVars, now, faults, body, requests, overlapped,
                   mirror, listVars>>

\* generatePDF resolves with buf: the file name is made and, when the client
\* exists, uploadPDFToSupabase runs up to its storage call
RenderOk(s, buf) ==
    /\ pc[s] = "rendering"
    /\ LET st == [stage[s] EXCEPT !.render = "ok"]
       IN IF ~supabase
          THEN /\ ToMirror(s, [st EXCEPT !.upload = "skipped"])
               /\ UNCHANGED <<fileName, request, storage>>
          ELSE IF uploadPrecheck(buf) # "ok"
          THEN /\ OnUploadError(s, [st EXCEPT !.upload = "rejected",
                                                !.error = uploadPrecheck(buf)])
               /\ UNCHANGED fileName
          ELSE /\ fileName' = [fileName EXCEPT ![s] = MakeFileName(request[s].id, now)]
               /\ pc' = [pc EXCEPT ![s] = "uploading"]
               /\ stage' = [stage EXCEPT ![s] = st]
               /\ UNCHANGED <<response, okLog, request, storage>>
    /\ doc' = [doc EXCEPT ![s] = generatePDF(request[s])]
    /\ UNCHANGED <<config, page, started, fsVars, now, faults, body, requests, overlapped,
                   mirror, listVars>>

\* generatePDF settles
RenderDone(s) ==
    \/ RenderFailed(s)
    \/ \E buf \in RenderedBuffers : RenderOk(s, buf)

\* a handler that keeps the URL in the local variable only
OnUploadOk_NotAttached(s) ==
    /\ storage' = storage \cup {sanitizeFilename(fileName[s])}
    /\ ToMirror(s, [stage[s] EXCEPT !.upload = "ok"])
    /\ UNCHANGED request

\* the upload succeeded: pdfUrl is attached to the request object
OnUploadOk(s) ==
    /\ request' = [request EXCEPT ![s] = AttachPdfUrl(request[s], PublicUrl(fileName[s]))]
    /\ storage' = storage \cup {sanitizeFilename(fileName[s])}
    /\ ToMirror(s, [stage[s] EXCEPT !.upload = "ok"])

\* the storage upload settles; upsert is false, so an existing key is an error
UploadDone(s) ==
    /\ pc[s] = "uploading"
    /\ \/ /\ sanitizeFilename(fileName[s]) \notin storage
          /\ OnUploadOk(s)
       \/ OnUploadError(s, [stage[s] EXCEPT !.upload = "failed",
              !.error = IF sanitizeFilename(fileName[s]) \in storage
                        THEN "The resource already exists" ELSE "fetch failed"])
    /\ fileName' = [fileName EXCEPT ![s] = NoName]
    /\ UNCHANGED <<config, page, doc, started, fsVars, now, faults, body, requests,
                   overlapped, mirror, listVars>>

\* a handler that calls saveRequestToDatabase again after it failed
MirrorDone_Retry(s) ==
    /\ pc[s] = "mirroring"
    /\ \/ /\ \A r \in mirror : r.id # request[s].id
          /\ mirror' = mirror \cup {MirrorRow(request[s])}
          /\ stage' = [stage EXCEPT ![s].mirror = "ok"]
          /\ RespondSuccess(s)
       \/ /\ stage' = [stage EXCEPT ![s].mirror = "failed", ![s].error = "fetch failed"]
          /\ UNCHANGED <<mirror, pc, response, okLog>>
    /\ UNCHANGED <<config, page, doc, started, fsVars, now, faults, body, request, requests,
                   fileName, overlapped, storage, listVars>>

\* the mirror insert settles (id is the primary key of design_requests);
\* either way the success response is sent
MirrorDone(s) ==
    /\ pc[s] = "mirroring"
    /\ \/ /\ \A r \in mirror : r.id # request[s].id
          /\ mirror' = mirror \cup {MirrorRow(request[s])}
          /\ stage' = [stage EXCEPT ![s].mirror = "ok"]
       \/ /\ stage' = [stage EXCEPT ![s].mirror = "failed",
                ![s].error = IF \E r \in mirror : r.id = request[s].id
                             THEN "duplicate key value" ELSE "fetch failed"]
          /\ UNCHANGED mirror
    /\ RespondSuccess(s)
    /\ UNCHANGED <<config, page, doc, started, fsVars, now, faults, body, request, requests,
                   fileName, overlapped, storage, listVars>>

(* -------------------------- GET /api/requests ------------------------- *)
\* values of the x-api-key header and of the apiKey query parameter
ApiKeys == {"undefined", "", AdminSecret, "wrong"}

\* req.headers['x-api-key'] || req.query.apiKey
RequestKey(header, query) == IF header \in {"undefined", ""} THEN query ELSE header

\* the route as it was before the middleware was added: every request passes
authenticateAdmin_Open(apiKey) == 0

\* authenticateAdmin: 0 stands for next()
authenticateAdmin(apiKey) ==
    IF adminKey = NoKey THEN 503
    ELSE IF apiKey # adminKey THEN 401
    ELSE 0

\* the listing as it was before masking was added: the stored email is sent
MaskEmail_Unmasked(e) == e

\* req.email ? req.email.substring(0, 3) + '***' : ''
MaskEmail(e) ==
    IF e = <<>> THEN <<>>
    ELSE SubSeq(e, 1, IF Len(e) < 3 THEN Len(e) ELSE 3) \o <<"*","*","*">>

MaskRecord(r) == [r EXCEPT !.email = MaskEmail(r.email)]

\* the whole listing handler (its only await is the read)
List(header, query) ==
    /\ started
    /\ lists < MaxLists
    /\ lists' = lists + 1
    /\ LET auth == authenticateAdmin(RequestKey(header, query))
       IN IF auth = 503
          THEN /\ listResp' = [status |-> 503, error |-> "Admin API not configured"]
               /\ UNCHANGED faults
          ELSE IF auth = 401
          THEN /\ listResp' = [status |-> 401, error |-> "Unauthorized"]
               /\ UNCHANGED faults
          ELSE \E ioError \in BOOLEAN :
                /\ ioError => (faults < MaxFaults /\ fileState = "json")
                /\ faults' = IF ioError THEN faults + 1 ELSE faults
                /\ LET got == readRequests(fileState, fileData, ioError)
                   IN listResp' = [status |-> 200,
                                   body |-> [i \in 1..Len(got) |-> MaskRecord(got[i])]]
    /\ UNCHANGED <<config, page, doc, started, fsVars, now, subVars, histVars, extVars>>

(* --------------------------- specification ---------------------------- *)
\* the intake pipeline
Next ==
    \/ StartServer
    \/ Tick
    \/ \E s \in Subs : Submit(s)
    \/ \E s \in Subs : ReadDone(s)
    \/ \E s \in Subs : WriteDone(s)
    \/ \E s \in Subs : RenderDone(s)
    \/ \E s \in Subs : UploadDone(s)
    \/ \E s \in Subs : MirrorDone(s)

\* the admin key is read by the listing alone
InitIntake == Init /\ adminKey = AdminSecret

Spec == InitIntake /\ [][Next]_vars

\* the administrative listing beside the intake pipeline, in the deployment
\* without storage client (the listing reads the ledger file only, and without
\* the client no upload and no mirror insert is ever started)
InitAdmin == Init /\ ~supabase

NextAdmin ==
    \/ StartServer
    \/ Tick
    \/ \E s \in Subs : Submit(s)
    \/ \E s \in Subs : ReadDone(s)
    \/ \E s \in Subs : WriteDone(s)
    \/ \E s \in Subs : RenderDone(s)
    \/ \E header, query \in ApiKeys : List(header, query)

SpecAdmin == InitAdmin /\ [][NextAdmin]_vars

\* what the scheduling of the handlers guarantees: a settled promise resumes
\* its handler, and fs.readFile, fs.writeFile and generatePDF are local and
\* settle; the storage upload and the mirror insert are network calls made
\* without any timeout or abort signal, so nothing makes them settle
LocalProgress ==
    \A s \in Subs :
        WF_vars(ReadDone(s)) /\ WF_vars(WriteDone(s)) /\ WF_vars(RenderDone(s))

SpecLive == InitIntake /\ [][Next]_vars /\ LocalProgress

(* ------------------------- the form page ------------------------------ *)
\* what a visitor typed: every input of the form has a text, '' when left empty
TypedForms ==
    { [f \in AllFields |-> IF BodyAnn[f] = Absent THEN <<>> ELSE BodyAnn[f]],
      [f \in AllFields |-> IF BodyBad[f] = Absent THEN <<>> ELSE BodyBad[f]] }

\* Object.fromEntries(formData) with the text fields trimmed
FormEntries(typed) == [f \in AllFields |-> Trim(typed[f])]

\* the submissions the server has not received yet
IdleSubs == {s \in Subs : pc[s] = "idle"}

\* the submit event: the button is disabled and relabelled, the message is
\* cleared and fetch('/api/submit-request') is started
PageSubmit ==
    /\ ~page.disabled
    /\ page.fetch = "idle"
    /\ IdleSubs # {}
    /\ \E typed \in TypedForms :
          page' = [disabled |-> TRUE, label |-> "Submitting...",
                   originalText |-> page.label, form |-> "filled", message |-> "none",
                   fetch |-> "pending",
                   sub |-> CHOOSE s \in IdleSubs : \A u \in IdleSubs : s <= u,
                   data |-> FormEntries(typed)]
    /\ UNCHANGED <<config, started, fsVars, now, faults, subVars, doc, histVars, extVars,
                   listVars>>

\* the POST of the page reaches the server
Arrive ==
    /\ page.fetch = "pending"
    /\ pc[page.sub] = "idle"
    /\ SubmitBody(page.sub, page.data)

\* the server's JSON response reaches the page: fetch resolves, the content
\* type is application/json and response.json() is read
PageReceive ==
    /\ page.fetch = "pending"
    /\ pc[page.sub] = "done"
    /\ page' = [page EXCEPT !.fetch = IF response[page.sub].status = 200
                                       THEN "ok" ELSE "error"]
    /\ UNCHANGED <<config, started, fsVars, now, faults, subVars, doc, histVars, extVars,
                   listVars>>

\* fetch resolves with a response that is not JSON (an error page of a proxy
\* or of the platform)
PageNonJson ==
    /\ page.fetch = "pending"
    /\ page' = [page EXCEPT !.fetch = "nonjson"]
    /\ UNCHANGED <<config, started, fsVars, now, faults, subVars, doc, histVars, extVars,
                   listVars>>

\* fetch rejects (connection refused or lost)
PageNetworkError ==
    /\ page.fetch = "pending"
    /\ page' = [page EXCEPT !.fetch = "rejected"]
    /\ UNCHANGED <<config, started, fsVars, now, faults, subVars, doc, histVars, extVars,
                   listVars>>

\* the rest of the handler once fetch has settled: the success branch shows
\* the message and resets the form, every other outcome throws into the catch,
\* and the finally block enables the button with the text it had
PageContinue ==
    /\ page.fetch \in {"ok", "error", "nonjson", "rejected"}
    /\ page' = [page EXCEPT
                  !.message = IF page.fetch = "ok" THEN "success" ELSE "error",
                  !.form = IF page.fetch = "ok" THEN "reset" ELSE @,
                  !.disabled = FALSE,
                  !.label = page.originalText,
                  !.fetch = "idle"]
    /\ UNCHANGED <<config, started, fsVars, now, faults, subVars, doc, histVars, extVars,
                   listVars>>

\* the deployment with both clients configured and the ledger file in place
InitPage ==
    /\ InitIntake
    /\ mode = "serverless" /\ supabase /\ dirExists /\ fileState = "json"

NextPage ==
    \/ PageSubmit
    \/ Arrive
    \/ \E s \in Subs : ReadDone(s)
    \/ \E s \in Subs : WriteDone(s)
    \/ \E s \in Subs : RenderDone(s)
    \/ \E s \in Subs : UploadDone(s)
    \/ \E s \in Subs : MirrorDone(s)
    \/ PageReceive
    \/ PageNonJson
    \/ PageNetworkError
    \/ PageContinue

SpecPage == InitPage /\ [][NextPage]_vars

\* the browser runs the handler's continuation once fetch has settled, the
\* network delivers the request and the response, and the server's local
\* steps settle; the page sets no timer and passes no abort signal to fetch,
\* and nothing makes the server's upload and mirror insert settle
PageProgress ==
    /\ WF_vars(Arrive) /\ WF_vars(PageReceive) /\ WF_vars(PageContinue)
    /\ LocalProgress

SpecPageLive == InitPage /\ [][NextPage]_vars /\ PageProgress

(* ----------------------- forms for the validation --------------------- *)
\* the text of n characters c
Rep(c, n) == [i \in 1..n |-> c]

Blank == <<" ", "\t", " ">>

\* v with white space around it
Padded(v) == <<" ">> \o v \o <<"\n", " ">>

\* the fields the forms below vary
FormFields ==
    {"clientName", "email", "projectType", "timeline", "budget", "designDescription",
     "stylePreferences"}

\* values a field may be posted with that keep its rule
GoodValues ==
    [f \in FormFields |->
        CASE f = "clientName" ->
                {BodyAnn.clientName, Rep("x", 100), Padded(Rep("x", 100))}
          [] f = "email" -> {BodyAnn.email, Padded(BodyAnn.email)}
          [] f = "projectType" -> ProjectTypes \cup {Padded(<<"o","t","h","e","r">>)}
          [] f = "timeline" -> Timelines \cup {Padded(<<"a","s","a","p">>)}
          [] f = "budget" -> Budgets \cup {Padded(<<"5","0","0","0","+">>)}
          [] f = "designDescription" ->
                {Rep("x", 10), Rep("x", 5000), Padded(Rep("x", 10)), Padded(Rep("x", 5000))}
          [] f = "stylePreferences" ->
                Styles \cup {Absent, Blank, Padded(<<"b","o","l","d">>)}]

\* values a field may be posted with that break its rule
BadValues ==
    [f \in FormFields |->
        CASE f = "clientName" -> {<<>>, Blank, Absent, Rep("x", 101)}
          [] f = "email" -> {<<>>, Blank, Absent, <<"a","n","n",".","e","x">>}
          [] f = "projectType" ->
                {<<>>, Blank, Absent, <<"b","l","o","g">>, <<"W","e","b","s","i","t","e">>}
          [] f = "timeline" ->
                {<<>>, Blank, Absent, <<"n","o","w">>, <<"1"," ","m","o","n","t","h">>}
          [] f = "budget" ->
                {<<>>, Blank, Absent, <<"f","r","e","e">>, <<"5","0","0","0">>}
          [] f = "designDescription" ->
                {<<>>, Blank, Absent, Rep("x", 9), Rep("x", 5001), Padded(Rep("x", 9))}
          [] f = "stylePreferences" ->
                {<<"g","o","t","h","i","c">>, <<"M","o","d","e","r","n">>}]

FormValues == [f \in FormFields |-> GoodValues[f] \cup BadValues[f]]

\* the valid form with one field replaced
OneChanged ==
    UNION {{[BodyAnn EXCEPT ![f] = v] : v \in FormValues[f]} : f \in FormFields}

\* the valid form with one field broken and a second field replaced
TwoChanged ==
    UNION {{[BodyAnn EXCEPT ![fg[1]] = vw[1], ![fg[2]] = vw[2]] :
                vw \in BadValues[fg[1]] \X FormValues[fg[2]]} :
           fg \in {p \in FormFields \X FormFields : p[1] # p[2]}}

\* forms whose required fields are all empty, all blank or all missing
AllRequiredBroken ==
    {[f \in AllFields |-> IF f \in {RequiredFields[i] : i \in 1..6} THEN v ELSE Absent] :
        v \in {<<>>, Blank, Absent}}

FormBodies == OneChanged \cup TwoChanged \cup AllRequiredBroken

\* one POST /api/submit-request, up to the end of the synchronous part of its
\* handler, for each of the forms above
InitValidate ==
    /\ InitIntake
    /\ mode = "serverless" /\ ~supabase /\ dirExists /\ fileState = "json"

NextValidate == \E b \in FormBodies : SubmitBody(1, b)

SpecValidate == InitValidate /\ [][NextValidate]_vars

(* ------------------- artifact names for the upload -------------------- *)
\* every text of dots, separators and letters up to MaxNameLen characters
ShortNames ==
    UNION {[1..n -> {".", "/", "\\", "a"}] : n \in 0..MaxNameLen}

\* the name of the traversal example, a name longer than the cap, and a name
\* as the route handler makes it
LongNames ==
    { <<".",".","/",".",".","/","e","t","c","/","p","a","s","s","w","d",".","p","d","f">>,
      Rep("a", 300),
      Rep("a", 254) \o <<"/", ".", ".", "/", "b">>,
      MakeFileName(<<"1">>, 2) }

SuggestedNames == ShortNames \cup LongNames

\* a submission whose PDF was rendered, as uploadPDFToSupabase is called with
\* one of the names above
InitUpload ==
    /\ mode = "serverless" /\ supabase = TRUE /\ adminKey = AdminSecret
    /\ started = TRUE
    /\ dirExists = TRUE /\ fileState = "json"
    /\ fileData = <<BuildRequest(BodyAnn, 1)>>
    /\ now = 1
    /\ faults = 0
    /\ pc = [s \in Subs |-> IF s = 1 THEN "uploading" ELSE "idle"]
    /\ body = [s \in Subs |-> IF s = 1 THEN BodyAnn ELSE NoRequest]
    /\ request = [s \in Subs |-> IF s = 1 THEN BuildRequest(BodyAnn, 1) ELSE NoRequest]
    /\ requests = [s \in Subs |-> <<>>]
    /\ \E name \in SuggestedNames :
          fileName = [s \in Subs |-> IF s = 1 THEN name ELSE NoName]
    /\ doc = [s \in Subs |-> IF s = 1 THEN generatePDF(BuildRequest(BodyAnn, 1)) ELSE NoDoc]
    /\ page = PageIdle
    /\ response = [s \in Subs |-> NoResponse]
    /\ stage = [s \in Subs |->
                  IF s = 1
                  THEN [NoStage EXCEPT !.read = "ok", !.write = "ok", !.render = "ok"]
                  ELSE NoStage]
    /\ storage = {}
    /\ mirror = {}
    /\ okLog = <<>>
    /\ overlapped = FALSE
    /\ lists = 0
    /\ listResp = NoResponse

NextUpload == UploadDone(1)

SpecUpload == InitUpload /\ [][NextUpload]_vars

(* ----------------------- records for the renderer -------------------- *)
\* the valid form with each subset of the optional fields filled in
OptionalValues ==
    [phoneNumber |-> <<"5","5","5">>,
     referenceWebsites |-> <<"e","x",".","c","o">>,
     colorPreferences |-> <<"b","l","u","e">>,
     stylePreferences |-> <<"m","o","d","e","r","n">>,
     keyFeatures |-> <<"c","a","r","t">>]

RenderForms ==
    { [f \in AllFields |->
          IF f \in filled THEN OptionalValues[f]
          ELSE IF f \in DOMAIN NoOptionals THEN Absent ELSE BodyAnn[f]] :
      filled \in SUBSET (DOMAIN NoOptionals) }

\* the valid form with optional fields that are posted blank
BodyBlankPrefs ==
    [BodyAnn EXCEPT !.colorPreferences = <<" ", " ">>, !.stylePreferences = <<>>,
                    !.phoneNumber = <<" ">>, !.keyFeatures = <<"\t">>]

\* the valid form with control characters in its free texts
BodyCtl ==
    [BodyAnn EXCEPT
        !.clientName = <<"A","BEL","n","DEL","n">>,
        !.designDescription =
            <<"a","ESC","b","\t","c","\n","d","VT","e","NUL","f","g","h","i","j","k">>,
        !.colorPreferences = <<"DEL","BEL">>,
        !.keyFeatures = <<"x","VT","y","ESC">>]

\* the valid form whose description is 2100 characters that escape() replaces
\* by five each
BodyLong == [BodyAnn EXCEPT !.designDescription = [i \in 1..2100 |-> "&"]]

PublishBodies ==
    {BodyAnn, BodyBob, BodyNul, BodyBlankPrefs, BodyCtl, BodyLong} \cup RenderForms

(* ------------------------- posting a record again --------------------- *)
\* the valid form with one of the characters escape() or xss() replace, or a
\* white-listed tag, in one of its free texts
MarkupTexts ==
    { <<"a", c, "b", "c", "d", "e", "f", "g", "h", "i", "j">> : c \in {"&", "<", ">", "/", ";"} }
    \cup { <<"<","b",">","b","o","l","d","<","/","b",">","t","e","x","t">> }

MarkupForms ==
    { [BodyAnn EXCEPT ![f] = v] :
        f \in {"clientName", "designDescription", "colorPreferences", "keyFeatures"},
        v \in MarkupTexts }

ResubmitForms == {BodyAnn, BodyBob, BodyNul, BodyCtl} \cup RenderForms \cup MarkupForms

\* the form a client posts who sends the fields of a stored record back
AsForm(r) == [f \in AllFields |-> r[f]]

\* the record submission 1 stored is posted again as submission 2
Resubmit ==
    /\ pc[1] = "reading"
    /\ SubmitBody(2, AsForm(request[1]))

NextResubmit ==
    \/ \E b \in ResubmitForms : SubmitBody(1, b)
    \/ Resubmit

SpecResubmit == InitValidate /\ [][NextResubmit]_vars

(* --------------------- payloads for the upload ------------------------ *)
\* what uploadPDFToSupabase may be handed as pdfBuffer: buffers of 0, 1,
\* maxSize - 1, maxSize, maxSize + 1 and 2 * maxSize bytes, and values that
\* are no Buffer (null, a string)
Payloads ==
    { [isBuffer |-> TRUE, length |-> n] :
        n \in {0, 1, MaxPdfSize - 1, MaxPdfSize, MaxPdfSize + 1, 2 * MaxPdfSize} }
    \cup { [isBuffer |-> FALSE, length |-> n] : n \in {0, 5} }

\* a submission whose record is in the ledger, as generatePDF is pending, with
\* the storage client configured
InitPublish ==
    /\ mode \in Modes /\ supabase = TRUE /\ adminKey = AdminSecret
    /\ started = TRUE
    /\ dirExists = TRUE /\ fileState = "json"
    /\ now = 1
    /\ faults = 0
    /\ \E b \in PublishBodies :
          /\ body = [s \in Subs |-> IF s = 1 THEN b ELSE NoRequest]
          /\ request = [s \in Subs |-> IF s = 1 THEN BuildRequest(b, 1) ELSE NoRequest]
          /\ fileData = <<BuildRequest(b, 1)>>
    /\ pc = [s \in Subs |-> IF s = 1 THEN "rendering" ELSE "idle"]
    /\ requests = [s \in Subs |-> <<>>]
    /\ fileName = [s \in Subs |-> NoName]
    /\ doc = [s \in Subs |-> NoDoc]
    /\ page = PageIdle
    /\ response = [s \in Subs |-> NoResponse]
    /\ stage = [s \in Subs |->
                  IF s = 1 THEN [NoStage EXCEPT !.read = "ok", !.write = "ok"] ELSE NoStage]
    /\ storage = {}
    /\ mirror = {}
    /\ okLog = <<>>
    /\ overlapped = FALSE
    /\ lists = 0
    /\ listResp = NoResponse

NextPublish ==
    \/ Tick
    \/ \E buf \in Payloads : RenderOk(1, buf)
    \/ UploadDone(1)
    \/ MirrorDone(1)

SpecPublish == InitPublish /\ [][NextPublish]_vars

(* ------------------------------ claims -------------------------------- *)
Done(s) == pc[s] = "done"
Succeeded(s) == response[s] = SuccessResponse

\* the record of submission s as writeRequests serialized it: the request
\* object before any pdfUrl was attached
StoredRecord(s) == [f \in DOMAIN request[s] \ {"pdfUrl"} |-> request[s][f]]

ContentFields == AllFields

\* record r holds the sanitized content of submission s
HasContentOf(r, s) == \A f \in ContentFields : r[f] = request[s][f]

\* mirror row r holds the sanitized content of submission s
RowHasContentOf(r, s) ==
    LET mine == MirrorRow(request[s])
    IN \A f \in DOMAIN mine \ {"id", "created_at", "pdf_url", "status"} : r[f] = mine[f]

\* no other submission posted the same form
UniqueContent(s) == \A t \in Subs \ {s} : body[t] # body[s]

\* C1: when two valid submissions overlap (and the file system reports no
\* fault), both records are in the ledger once both have completed
C1_NoLostAppend ==
    \A s, t \in Subs :
        (s # t /\ overlapped /\ faults = 0 /\ Done(s) /\ Done(t)
              /\ Succeeded(s) /\ Succeeded(t))
        => \E i, j \in 1..Len(Ledger) :
               i # j /\ Ledger[i] = StoredRecord(s) /\ Ledger[j] = StoredRecord(t)

\* C2: no two records of the ledger have the same id
C2_UniqueIds ==
    \A i, j \in 1..Len(Ledger) : i # j => Ledger[i].id # Ledger[j].id

\* C3: a submission whose ledger write failed is answered with the failure
\* response, none of rendering, upload and mirror insert ran for it, and no
\* record with its content is in the ledger or in the mirror
C3_WriteFailureIsFatal ==
    \A s \in Subs :
        stage[s].write = "failed"
        => /\ Done(s)
           /\ response[s] = FailureResponse
           /\ stage[s].render = "none"
           /\ stage[s].upload = "none"
           /\ stage[s].mirror = "none"
           /\ ~HasPdfUrl(request[s])
           /\ UniqueContent(s)
              => /\ \A i \in 1..Len(Ledger) : ~HasContentOf(Ledger[i], s)
                 /\ \A r \in mirror : ~RowHasContentOf(r, s)

\* a write failed by an injected fault while the ledger held an earlier record
C3_Witness ==
    \E s \in Subs :
        /\ stage[s].write = "failed"
        /\ dirExists
        /\ UniqueContent(s)
        /\ Done(s)
        /\ \E t \in Subs \ {s} : Succeeded(t) /\ Ledger = <<StoredRecord(t)>>

Valid(s) == pc[s] # "idle" /\ validateSubmitRequest(body[s]) = <<>>

\* C4: a valid submission whose ledger write succeeded is answered with the
\* success response whatever rendering, upload and mirror insert did; a 400
\* is sent only for an invalid form and a 500 only after a failed ledger write
C4_DownstreamNeverFatal ==
    \A s \in Subs :
        /\ (Valid(s) /\ stage[s].write = "ok")
           => /\ response[s] \in {NoResponse, SuccessResponse}
              /\ Done(s) => Succeeded(s)
        /\ response[s].status = 400 => ~Valid(s)
        /\ response[s].status = 500 => stage[s].write = "failed"
        /\ response[s].status \in {0, 200, 400, 500}

\* two successful submissions: one whose upload and mirror insert failed, one
\* whose rendering and mirror insert failed
C4_Witness ==
    \E s, t \in Subs :
        /\ Succeeded(s) /\ Succeeded(t)
        /\ stage[s].render = "ok" /\ stage[s].upload = "failed"
        /\ stage[s].mirror = "failed"
        /\ stage[t].render = "failed" /\ stage[t].mirror = "failed"

Invalid(s) == pc[s] # "idle" /\ validateSubmitRequest(body[s]) # <<>>

\* C5: a submission with a field violation ends at once with the 400 response
\* listing the violations, builds no record and runs no stage, and the step
\* that rejects it changes neither the ledger file, the bucket nor the mirror
C5_InvalidHasNoEffect ==
    /\ [](\A s \in Subs :
            Invalid(s)
            => /\ Done(s)
               /\ response[s] = ValidationResponse(validateSubmitRequest(body[s]))
               /\ request[s] = NoRequest
               /\ stage[s] = NoStage)
    /\ [][\A s \in Subs :
            (pc[s] = "idle" /\ pc'[s] # "idle"
                /\ validateSubmitRequest(body'[s]) # <<>>)
            => UNCHANGED <<fsVars, storage, mirror>>]_vars

\* an invalid form rejected while the ledger holds an earlier record
C5_Witness ==
    \E s \in Subs :
        /\ Invalid(s)
        /\ response[s].status = 400
        /\ Len(response[s].details) = 3
        /\ Len(Ledger) = 1

Published(s) == stage[s].render = "ok" /\ stage[s].upload = "ok"

\* C6: a record carries a pdfUrl only if rendering and upload both succeeded
\* for its submission: this holds of the request object, of every ledger
\* record and of every mirror row, and a row inserted for a submission whose
\* rendering or upload failed or was skipped has pdf_url null
C6_PdfUrlOnlyIfPublished ==
    /\ \A s \in Subs : HasPdfUrl(request[s]) => Published(s)
    /\ \A i \in 1..Len(Ledger) :
          HasPdfUrl(Ledger[i])
          => \E s \in Subs : Published(s) /\ Ledger[i] = request[s]
    /\ \A s \in Subs :
          stage[s].mirror = "ok"
          => /\ MirrorRow(request[s]) \in mirror
             /\ MirrorRow(request[s]).pdf_url # Null => Published(s)
             /\ ~Published(s) => MirrorRow(request[s]).pdf_url = Null
    /\ \A r \in mirror :
          \E s \in Subs : stage[s].mirror = "ok" /\ r = MirrorRow(request[s])
    /\ \A s \in Subs :
          (stage[s].write = "ok" /\ ~Published(s))
          => \A i \in 1..Len(Ledger) :
                Ledger[i].id = request[s].id => ~HasPdfUrl(Ledger[i])

\* one mirrored submission with an uploaded artifact, one mirrored submission
\* whose upload failed
C6_Witness ==
    \E s, t \in Subs :
        /\ Published(s) /\ stage[s].mirror = "ok"
        /\ MirrorRow(request[s]).pdf_url = PublicUrl(MakeFileName(request[s].id, now))
        /\ stage[t].render = "ok" /\ stage[t].upload = "failed"
        /\ stage[t].mirror = "ok"
        /\ MirrorRow(request[t]) \in mirror
        /\ MirrorRow(request[t]).pdf_url = Null

\* the ledger file was written by non-overlapping submissions without fault
LedgerIntact == ~overlapped /\ faults = 0 /\ fileState = "json"

\* C7 as stated: once a submission whose rendering and upload both succeeded
\* has completed, its ledger record carries the pdfUrl of the request object
C7_LedgerRecordHasPdfUrl ==
    \A s \in Subs :
        (Done(s) /\ Succeeded(s) /\ Published(s) /\ LedgerIntact)
        => \E i \in 1..Len(Ledger) :
              /\ Ledger[i].id = request[s].id
              /\ HasPdfUrl(Ledger[i])
              /\ Ledger[i].pdfUrl = request[s].pdfUrl

\* C7 as amended: the ledger record is persisted before the pdfUrl is attached,
\* so no ledger record carries a pdfUrl; after a successful rendering and
\* upload the request object carries the public URL of the stored artifact,
\* and the row inserted into the mirror carries that URL as pdf_url
C7_PdfUrlAttachedAfterLedgerWrite ==
    /\ \A i \in 1..Len(Ledger) : ~HasPdfUrl(Ledger[i])
    /\ \A s \in Subs :
          (Published(s) /\ LedgerIntact)
          => \E i \in 1..Len(Ledger) : Ledger[i] = StoredRecord(s)
    /\ \A s \in Subs :
          Published(s)
          => /\ HasPdfUrl(request[s])
             /\ \E k \in storage : request[s].pdfUrl = PublicUrl(k)
             /\ stage[s].mirror = "ok"
                => \E r \in mirror :
                      r.id = request[s].id /\ r.pdf_url = request[s].pdfUrl

\* a completed submission with artifact and mirror row, alone in the ledger
C7_Witness ==
    \E s \in Subs :
        /\ Done(s) /\ Succeeded(s) /\ Published(s) /\ LedgerIntact
        /\ stage[s].mirror = "ok"
        /\ MirrorRow(request[s]) \in mirror
        /\ MirrorRow(request[s]).pdf_url = request[s].pdfUrl
        /\ Ledger = <<StoredRecord(s)>>

Quiescent == \A s \in Subs : ~InFlight(s)

\* the records of the submissions that reported success, in that order
AcceptedRecords == [i \in 1..Len(okLog) |-> StoredRecord(okLog[i])]

\* C8: after any sequence of non-overlapping submissions the ledger reads as
\* exactly the records of the successful submissions, in submission order
C8_LedgerIsAcceptedRecords ==
    (~overlapped /\ Quiescent) => Ledger = AcceptedRecords

\* C9: a submission whose ledger read failed (I/O error or unparsable
\* content) never writes the ledger and is answered with the failure response
C9_ReadFailureIsFatal ==
    \A s \in Subs :
        stage[s].read \in {"ioerror", "unparsable"}
        => /\ stage[s].write # "ok"
           /\ Done(s) => response[s] = FailureResponse

\* C10: a valid submission that finds no requests file succeeds (no injected
\* fault), the file then exists, and when it is the only submission so far
\* its record is the sole ledger entry
C10_StoreCreatedOnFirstAccess ==
    \A s \in Subs :
        (Valid(s) /\ Done(s) /\ stage[s].read = "missing" /\ faults = 0)
        => /\ Succeeded(s)
           /\ fileState = "json"
           /\ (\A t \in Subs \ {s} : pc[t] = "idle") => Ledger = <<StoredRecord(s)>>

\* C11: every submission whose ledger write succeeded eventually reaches Done
\* and has a response, even when the upload or the mirror insert never returns
C11_PersistedEventuallyResponds ==
    \A s \in Subs : (stage[s].write = "ok") ~> (Done(s) /\ response[s] # NoResponse)

\* C12: a listing is answered with records only if the request's x-api-key
\* header or apiKey query parameter equals the configured ADMIN_API_KEY, and
\* is answered so when the header holds the key, or the header is missing and
\* the query holds it; every other listing gets no record data and no ledger
\* read is made for it, with status 401 when a key is configured and 503
\* when none is
C12_ListingNeedsAdminKey ==
    [][\A header, query \in ApiKeys :
          List(header, query)
          => LET granted == listResp'.status = 200
                 configured == adminKey # NoKey
             IN /\ granted => (configured /\ (header = adminKey \/ query = adminKey))
                /\ (configured /\ header = adminKey) => granted
                /\ (configured /\ header \in {"undefined", ""} /\ query = adminKey)
                      => granted
                /\ (header # adminKey /\ query # adminKey) => ~granted
                /\ ~granted
                      => /\ "body" \notin DOMAIN listResp'
                         /\ faults' = faults
                         /\ listResp'.status = IF configured THEN 401 ELSE 503
      ]_vars

\* a listing refused with 401 while the ledger holds a record
C12_Witness ==
    /\ lists = 1
    /\ adminKey = AdminSecret
    /\ listResp = [status |-> 401, error |-> "Unauthorized"]
    /\ Len(Ledger) >= 1

\* record b is record r with the email cut to its first three characters
\* followed by three asterisks (empty when the email of r is empty)
IsMaskedCopy(b, r) ==
    LET n == IF Len(r.email) < 3 THEN Len(r.email) ELSE 3
    IN /\ DOMAIN b = DOMAIN r
       /\ \A f \in DOMAIN r \ {"email"} : b[f] = r[f]
       /\ IF r.email = <<>>
          THEN b.email = <<>>
          ELSE /\ Len(b.email) = n + 3
               /\ \A k \in 1..n : b.email[k] = r.email[k]
               /\ \A k \in (n + 1)..(n + 3) : b.email[k] = "*"

\* C13: a listing that is answered with records returns the records of the
\* ledger in ledger order (all of them unless the read failed), each with its
\* email masked and every other field unchanged, and leaves the ledger file
\* as it was; the mask of alice@example.com is ali***, of the empty email the
\* empty string
C13_ListingMasksEmail ==
    [][/\ MaskEmail(<<>>) = <<>>
       /\ MaskEmail(<<"a","l","i","c","e","@","e","x","a","m","p","l","e",".","c","o","m">>)
             = <<"a","l","i","*","*","*">>
       /\ (lists' = lists + 1 /\ listResp'.status = 200)
          => /\ UNCHANGED fsVars
             /\ Len(listResp'.body) <= Len(Ledger)
             /\ faults' = faults => Len(listResp'.body) = Len(Ledger)
             /\ \A i \in 1..Len(listResp'.body) :
                   IsMaskedCopy(listResp'.body[i], Ledger[i])
      ]_vars

\* a listing of a ledger of two records, answered with both, masked
C13_Witness ==
    /\ listResp.status = 200
    /\ Len(Ledger) = 2
    /\ Len(listResp.body) = 2
    /\ Ledger[1].email = <<"a","n","n","@","e","x",".","c","o">>
    /\ listResp.body[1].email = <<"a","n","n","*","*","*">>
    /\ listResp.body[2].email = <<"b","o","b","*","*","*">>
    /\ listResp.body[2].clientName = Ledger[2].clientName

\* the client exists, and the upload and the mirror insert of s both failed
FailedExternals(s) ==
    /\ supabase
    /\ stage[s].upload \in {"failed", "rejected"}
    /\ stage[s].mirror = "failed"

\* s completed after a successful ledger write, without client or with both
\* external stages failing
Degraded(s) ==
    /\ Done(s)
    /\ stage[s].write = "ok"
    /\ ~supabase \/ FailedExternals(s)

\* C14: a valid submission that ran without storage client and one whose
\* upload and mirror insert both failed end alike: the success response, a
\* request object that is the record built from the form, with no pdfUrl; and
\* when every completed submission of a run without overlap and without
\* file-system fault is of either kind, the ledger holds exactly those records,
\* the bucket is empty and the mirror has no row
C14_AbsentClientIsFailedStage ==
    /\ \A s \in Subs :
          Degraded(s)
          => /\ Succeeded(s)
             /\ ~HasPdfUrl(request[s])
             /\ \E t \in 1..MaxClock : request[s] = BuildRequest(body[s], t)
    /\ (Quiescent /\ ~overlapped /\ faults = 0
           /\ \A s \in Subs : (Valid(s) /\ stage[s].write = "ok") => Degraded(s))
       => /\ Ledger = AcceptedRecords
          /\ \A i \in 1..Len(Ledger) : ~HasPdfUrl(Ledger[i])
          /\ storage = {}
          /\ mirror = {}

\* with the client present: a completed submission whose upload and mirror
\* insert both failed, alone in the ledger
C14_Witness ==
    \E s \in Subs :
        /\ FailedExternals(s)
        /\ Degraded(s)
        /\ Succeeded(s)
        /\ Quiescent /\ ~overlapped /\ faults = 0
        /\ Ledger = <<BuildRequest(body[s], 1)>>
        /\ storage = {} /\ mirror = {}

\* C15: the response of a completed valid submission is one of two fixed
\* records whatever error its handler caught and whatever the error's message:
\* the generic failure after a failed ledger write, the success response after
\* an error of rendering, upload or mirror insert
C15_ResponseHidesInternalErrors ==
    \A s \in Subs :
        (Done(s) /\ Valid(s))
        => /\ stage[s].write \in {"ok", "failed"}
           /\ stage[s].write = "failed"
              => /\ stage[s].error \in {"ENOENT"} \cup WriteErrors
                 /\ response[s] =
                      [status |-> 500,
                       error |-> "An error occurred while processing your request. Please try again later."]
           /\ stage[s].write = "ok"
              => response[s] =
                   [status |-> 200, success |-> TRUE,
                    message |-> "Request submitted successfully"]

\* one submission failed by a full disk, one that succeeded although its
\* upload and then its mirror insert failed
C15_Witness ==
    \E s, t \in Subs :
        /\ Done(s) /\ stage[s].write = "failed" /\ stage[s].error = "ENOSPC"
        /\ response[s] = FailureResponse
        /\ Done(t) /\ stage[t].upload = "failed" /\ stage[t].mirror = "failed"
        /\ stage[t].error = "fetch failed"
        /\ response[t] = SuccessResponse

\* the field a message of the response is about
FieldNamedBy(msg) ==
    CASE msg = "Name must be between 1 and 100 characters" -> "clientName"
      [] msg = "Invalid email address" -> "email"
      [] msg = "Email too long" -> "email"
      [] msg = "Phone number too long" -> "phoneNumber"
      [] msg = "Invalid phone number format" -> "phoneNumber"
      [] msg = "Invalid project type" -> "projectType"
      [] msg = "Invalid timeline selection" -> "timeline"
      [] msg = "Invalid budget selection" -> "budget"
      [] msg = "Description must be between 10 and 5000 characters" -> "designDescription"
      [] msg = "Reference websites too long" -> "referenceWebsites"
      [] msg = "Invalid URL in reference websites" -> "referenceWebsites"
      [] msg = "Color preferences too long" -> "colorPreferences"
      [] msg = "Invalid style preference selection" -> "stylePreferences"
      [] msg = "Key features too long" -> "keyFeatures"

\* the fields the messages of the response of s are about
NamedFields(s) ==
    IF response[s].status = 400
    THEN {FieldNamedBy(response[s].details[i]) : i \in 1..Len(response[s].details)}
    ELSE {}

\* the fields of form b posted with a value that breaks the field's rule
BrokenFields(b) == {f \in FormFields : b[f] \in BadValues[f]}

\* field f of form b is missing, empty or made of white space only
IsBlank(b, f) ==
    b[f] = Absent \/ \A i \in 1..Len(b[f]) : b[f][i] \in {" ", "\t", "\n"}

\* C16: the violations returned for a form are about exactly the fields that
\* break their rule, all of them; a form with a broken field is rejected with
\* status 400 and builds no record; a required field that is missing, empty
\* or blank is among the fields the response names
C16_EveryViolationReported ==
    \A s \in Subs :
        pc[s] # "idle"
        => /\ NamedFields(s) = BrokenFields(body[s])
           /\ BrokenFields(body[s]) # {}
              => /\ response[s].status = 400
                 /\ response[s].error = "Validation failed"
                 /\ Done(s)
                 /\ request[s] = NoRequest
           /\ \A i \in 1..6 :
                 IsBlank(body[s], RequiredFields[i]) => RequiredFields[i] \in NamedFields(s)

\* a form with every required field blank, answered with a violation for each
C16_Witness ==
    \E s \in Subs :
        /\ Done(s)
        /\ \A i \in 1..6 : body[s][RequiredFields[i]] = Blank
        /\ response[s].status = 400
        /\ Len(response[s].details) = 6
        /\ NamedFields(s) = {RequiredFields[i] : i \in 1..6}

\* the posted value v without the white space around it ('' when missing)
Stripped(v) ==
    IF v = Absent \/ \A i \in 1..Len(v) : v[i] \in {" ", "\t", "\n"}
    THEN <<>>
    ELSE LET lo == CHOOSE i \in 1..Len(v) :
                     v[i] \notin {" ", "\t", "\n"}
                     /\ \A j \in 1..(i - 1) : v[j] \in {" ", "\t", "\n"}
             hi == CHOOSE i \in 1..Len(v) :
                     v[i] \notin {" ", "\t", "\n"}
                     /\ \A j \in (i + 1)..Len(v) : v[j] \in {" ", "\t", "\n"}
         IN SubSeq(v, lo, hi)

\* the fixed vocabulary of each enum field
Vocabulary ==
    [f \in {"projectType", "timeline", "budget", "stylePreferences"} |->
        CASE f = "projectType" ->
                { <<"w","e","b","s","i","t","e">>, <<"r","e","d","e","s","i","g","n">>,
                  <<"l","a","n","d","i","n","g">>, <<"e","c","o","m","m","e","r","c","e">>,
                  <<"o","t","h","e","r">> }
          [] f = "timeline" ->
                { <<"a","s","a","p">>, <<"1","m","o","n","t","h">>,
                  <<"2","-","3","m","o","n","t","h","s">>,
                  <<"f","l","e","x","i","b","l","e">> }
          [] f = "budget" ->
                { <<"2","0","0","-","5","0","0">>, <<"5","0","0","-","1","0","0","0">>,
                  <<"1","0","0","0","-","2","5","0","0">>,
                  <<"2","5","0","0","-","5","0","0","0">>, <<"5","0","0","0","+">> }
          [] f = "stylePreferences" -> Styles \ {<<>>}]

\* C17: for each enum field, the response has a violation about the field
\* exactly when the posted value, without surrounding white space, is outside
\* the field's vocabulary (for stylePreferences: outside it and not empty or
\* missing); a form without violation is accepted with that value recorded
C17_EnumsInsideVocabulary ==
    \A s \in Subs :
        pc[s] # "idle"
        => /\ \A f \in {"projectType", "timeline", "budget"} :
                 f \in NamedFields(s) <=> Stripped(body[s][f]) \notin Vocabulary[f]
           /\ "stylePreferences" \in NamedFields(s)
                 <=> Stripped(body[s]["stylePreferences"])
                        \notin Vocabulary["stylePreferences"] \cup {<<>>}
           /\ NamedFields(s) = {}
              => /\ response[s].status # 400
                 /\ pc[s] = "reading"
                 /\ \A f \in DOMAIN Vocabulary : request[s][f] = Stripped(body[s][f])

\* a budget one character away from the vocabulary, rejected for that alone
C17_Witness ==
    \E s \in Subs :
        /\ Done(s)
        /\ body[s]["budget"] = <<"5","0","0","0">>
        /\ body[s]["stylePreferences"] \in Styles \ {<<>>}
        /\ response[s].status = 400
        /\ response[s].details = <<"Invalid budget selection">>

\* form b is the valid form except for its designDescription
OnlyDescriptionVaries(b) ==
    \A f \in AllFields \ {"designDescription"} : b[f] = BodyAnn[f]

\* C18: a form whose other fields are valid is accepted exactly when the
\* length L of designDescription without surrounding white space satisfies
\* 10 <= L <= 5000; otherwise it is rejected with the description's violation
C18_DescriptionLengthBounds ==
    \A s \in Subs :
        (pc[s] # "idle" /\ OnlyDescriptionVaries(body[s]))
        => LET L == Len(Stripped(body[s]["designDescription"]))
           IN IF 10 <= L /\ L <= 5000
              THEN /\ pc[s] = "reading"
                   /\ response[s] = NoResponse
                   /\ Len(request[s].designDescription) = L
              ELSE /\ Done(s)
                   /\ response[s].status = 400
                   /\ response[s].details =
                        <<"Description must be between 10 and 5000 characters">>

\* a description of 5000 characters between white space, accepted
C18_Witness ==
    \E s \in Subs :
        /\ pc[s] = "reading"
        /\ OnlyDescriptionVaries(body[s])
        /\ Len(body[s]["designDescription"]) = 5003
        /\ Len(request[s].designDescription) = 5000

\* C19: every record of the ledger has non-blank clientName, email,
\* projectType, timeline, budget and designDescription, enum fields inside
\* their vocabularies (stylePreferences inside its vocabulary or empty) and
\* status pending_review
C19_LedgerRecordsWellFormed ==
    \A i \in 1..Len(Ledger) :
        LET r == Ledger[i]
        IN /\ \A k \in 1..6 : Stripped(r[RequiredFields[k]]) # <<>>
           /\ \A f \in {"projectType", "timeline", "budget"} : r[f] \in Vocabulary[f]
           /\ r.stylePreferences \in Vocabulary["stylePreferences"] \cup {<<>>}
           /\ r.status = "pending_review"

\* C19, second part: a step never changes the status, id or createdAt of a
\* stored record: every record of the ledger after the step was in the ledger
\* before it, or is the new record of the submission that wrote
C19_StoredFieldsNeverChange ==
    [][\A j \in 1..Len(Ledger') :
          \/ \E i \in 1..Len(Ledger) : Ledger'[j] = Ledger[i]
          \/ \E s \in Subs :
                /\ pc[s] = "writing"
                /\ Ledger'[j] = StoredRecord(s)
                /\ Ledger'[j].status = "pending_review"
      ]_vars

\* C20: every key of the bucket is made of letters, digits, dot, underscore
\* and hyphen only, has at most 255 characters, and contains no "/" or "\",
\* and no ".."
C20_SafeStorageKey ==
    \A k \in storage :
        /\ \A i \in 1..Len(k) : k[i] \in Letters \cup Digits \cup {".", "_", "-"}
        /\ Len(k) <= 255
        /\ \A i \in 1..Len(k) : k[i] \notin {"/", "\\"}
        /\ \A i \in 1..(Len(k) - 1) : ~(k[i] = "." /\ k[i + 1] = ".")

\* C21: the upload of a payload that is no buffer, is empty or is longer than
\* 10 * 1024 * 1024 bytes is turned away before the storage call (the bucket
\* is untouched and no upload is pending), every other payload, one of exactly
\* 10 * 1024 * 1024 bytes included, goes to the storage call; a submission
\* whose payload was turned away has no pdfUrl and ends with the success
\* response
C21_PayloadPrecheck ==
    /\ [][\A buf \in Payloads :
             RenderOk(1, buf)
             => IF buf.isBuffer /\ 0 < buf.length /\ buf.length <= 10 * 1024 * 1024
                THEN /\ pc'[1] = "uploading"
                     /\ stage'[1].upload = "none"
                ELSE /\ pc'[1] = "mirroring"
                     /\ stage'[1].upload = "rejected"
                     /\ storage' = storage
                     /\ request' = request
         ]_vars
    /\ [](\A s \in Subs :
             stage[s].upload = "rejected"
             => /\ ~HasPdfUrl(request[s])
                /\ storage = {}
                /\ response[s] \in {NoResponse, SuccessResponse}
                /\ Done(s) => Succeeded(s))

\* a submission whose PDF was too large, completed with success
C21_Witness ==
    \E s \in Subs :
        /\ stage[s].upload = "rejected"
        /\ stage[s].error = "PDF file too large"
        /\ Done(s) /\ Succeeded(s)
        /\ ~HasPdfUrl(request[s])
        /\ storage = {}

\* C22: sanitization is idempotent: when the fields of a stored record are
\* posted again and accepted, the record built from them has the same field
\* values (the chain's escape followed by sanitizeInput changes nothing in a
\* value it produced)
C22_ResubmitStoresSameValue ==
    (pc[1] = "reading" /\ pc[2] = "reading" /\ body[2] = AsForm(request[1]))
    => \A f \in AllFields : request[2][f] = request[1][f]

\* C22, renderer part: sanitizeForPDF changes nothing in a text it produced
C22_RendererIdempotent ==
    \A s \in Subs : \A i \in DOMAIN doc[s] :
        sanitizeForPDF(doc[s][i].text) = doc[s][i].text

(* claim helpers for the document *)
\* the fixed texts of the text() calls of a document, in order: the title,
\* the section headings, the labels of the lines ("" for a free text)
Labels(d) == [i \in DOMAIN d |-> d[i].label]

\* the texts a document of record r has when Shown(v) tells whether the
\* value v makes its line or section appear
Layout(r, Shown(_)) ==
    << "Design Request Submission", "Submitted: " >>
    \o << "Client Information", "Name: ", "Email: " >>
    \o (IF Shown(r.phoneNumber) THEN << "Phone: " >> ELSE <<>>)
    \o << "Project Details", "Project Type: ", "Timeline: ", "Budget Range: $" >>
    \o << "Project Description", "" >>
    \o (IF Shown(r.colorPreferences) \/ Shown(r.stylePreferences)
        THEN << "Design Preferences" >> ELSE <<>>)
    \o (IF Shown(r.colorPreferences) THEN << "Color Preferences: " >> ELSE <<>>)
    \o (IF Shown(r.stylePreferences) THEN << "Style Preferences: " >> ELSE <<>>)
    \o (IF Shown(r.keyFeatures) THEN << "Key Features Required", "" >> ELSE <<>>)
    \o (IF Shown(r.referenceWebsites) THEN << "Reference Websites", "" >> ELSE <<>>)
    \o << "Request ID: " >>

NonEmpty(v) == v # <<>>

\* v has a character that is no control character of codes 0-8, 11, 12,
\* 14-31, 127
Printable(v) == \E i \in 1..Len(v) : v[i] \notin {"NUL", "BEL", "VT", "ESC", "DEL"}

Rendered(s) == stage[s].render = "ok"

Rank ==
    [ idle |-> 0, reading |-> 1, writing |-> 2, rendering |-> 3, uploading |-> 4,
      mirroring |-> 5, done |-> 6 ]

UploadInvoked(s) == pc[s] = "uploading" \/ stage[s].upload \in {"ok", "failed", "rejected"}
MirrorInvoked(s) == pc[s] = "mirroring" \/ stage[s].mirror \in {"ok", "failed"}

\* C24: within a submission the stages take effect in the order validation,
\* record construction, ledger write, rendering, upload, mirror insert,
\* response: the record exists only for a valid form, the ledger write only
\* for a built record, rendering starts only after a successful ledger write,
\* the upload is invoked only after a completed rendering whose document
\* exists, the mirror insert only when no upload is pending and the upload
\* succeeded, failed or was skipped, the success response only after the
\* mirror stage concluded; no step moves a handler back to an earlier await
C24_StagesInOrder ==
    /\ [](\A s \in Subs :
            /\ request[s] # NoRequest => Valid(s)
            /\ (pc[s] = "writing" \/ stage[s].write # "none") => request[s] # NoRequest
            /\ (pc[s] = "rendering" \/ stage[s].render # "none") => stage[s].write = "ok"
            /\ UploadInvoked(s) => (stage[s].render = "ok" /\ doc[s] # NoDoc)
            /\ MirrorInvoked(s)
                 => /\ pc[s] # "uploading"
                    /\ \/ stage[s].upload \in {"ok", "failed", "rejected"}
                       \/ stage[s].upload = "none" /\ stage[s].render = "failed"
            /\ Succeeded(s)
                 => /\ Done(s)
                    /\ stage[s].mirror \in {"ok", "failed", "skipped"}
                    /\ stage[s].write = "ok")
    /\ [][\A s \in Subs : Rank[pc'[s]] >= Rank[pc[s]]]_vars

\* a submission that went through every stage and was answered with success
C24_Witness ==
    \E s \in Subs :
        /\ Done(s) /\ Succeeded(s)
        /\ stage[s].write = "ok" /\ stage[s].render = "ok"
        /\ stage[s].upload = "ok" /\ stage[s].mirror = "ok"
        /\ doc[s] # NoDoc

\* what the handler does once a failed upload, a rejected payload or a failed
\* mirror insert was caught
DownstreamFailureAdvances(s) ==
    /\ (pc[s] = "uploading" /\ stage'[s].upload = "failed") => pc'[s] = "mirroring"
    /\ (pc[s] = "rendering" /\ stage'[s].upload = "rejected") => pc'[s] = "mirroring"
    /\ (pc[s] = "mirroring" /\ stage'[s].mirror = "failed")
         => (pc'[s] = "done" /\ response'[s] = SuccessResponse)

\* with the client configured the mirror insert is attempted in every
\* submission that passed local persistence, and such a submission ends with
\* the success response
MirrorAlwaysAttempted ==
    \A s \in Subs :
        (Done(s) /\ stage[s].write = "ok")
        => /\ Succeeded(s)
           /\ stage[s].mirror \in (IF supabase THEN {"ok", "failed"} ELSE {"skipped"})

RenderingFails(s) == pc[s] = "rendering" /\ stage'[s].render = "failed"

\* C25 as stated: after the ledger write succeeded a failure of rendering,
\* upload or mirror insert moves the handler to the next stage: the upload is
\* entered after a failed rendering, the mirror insert after a failed upload,
\* the response after a failed mirror insert, and the mirror insert is
\* attempted, when the client is configured, in every submission that passed
\* local persistence
C25_FailureEntersNextStage ==
    /\ [][\A s \in Subs :
            /\ (RenderingFails(s) /\ supabase) => pc'[s] = "uploading"
            /\ DownstreamFailureAdvances(s)]_vars
    /\ []MirrorAlwaysAttempted

\* C25 amended: a failed rendering leaves out the upload (no upload is invoked
\* and none is recorded) and moves the handler to the mirror insert, or to the
\* success response when no client is configured; the other failures advance
\* as stated
C25_FailedRenderingSkipsUpload ==
    /\ [][\A s \in Subs :
            /\ RenderingFails(s)
                 => /\ pc'[s] = (IF supabase THEN "mirroring" ELSE "done")
                    /\ stage'[s].upload = "none"
                    /\ fileName'[s] = NoName /\ storage' = storage
                    /\ ~supabase => response'[s] = SuccessResponse
            /\ DownstreamFailureAdvances(s)]_vars
    /\ []MirrorAlwaysAttempted
    /\ [](\A s \in Subs : stage[s].render = "failed" => stage[s].upload = "none")

\* a submission whose rendering and mirror insert both failed, answered with
\* success
C25_Witness ==
    \E s \in Subs :
        /\ supabase
        /\ Done(s) /\ Succeeded(s)
        /\ stage[s].render = "failed"
        /\ stage[s].upload = "none"
        /\ stage[s].mirror = "failed"

StageNames == {"write", "render", "upload", "mirror"}

\* C26: no retries: within a submission the ledger write, the rendering, the
\* upload and the mirror insert are each invoked at most once: the outcome a
\* stage has settled with is never replaced, and every step of a handler
\* leaves the await it was suspended at for a later one
C26_NoRetries ==
    [][\A s \in Subs :
         /\ \A f \in StageNames :
               stage[s][f] # "none" => stage'[s][f] = stage[s][f]
         /\ (pc'[s] # pc[s] \/ stage'[s] # stage[s]) => Rank[pc'[s]] > Rank[pc[s]]
      ]_vars

\* a submission whose upload and mirror insert both failed, completed
C26_Witness ==
    \E s \in Subs :
        /\ Done(s) /\ Succeeded(s)
        /\ stage[s].render = "ok"
        /\ stage[s].upload = "failed"
        /\ stage[s].mirror = "failed"

\* the record field whose value a labelled line of the document shows
LineField ==
    [l \in {"Name: ", "Email: ", "Phone: ", "Project Type: ", "Timeline: ",
            "Budget Range: $", "Color Preferences: ", "Style Preferences: ",
            "Request ID: "} |->
        CASE l = "Name: " -> "clientName"
          [] l = "Email: " -> "email"
          [] l = "Phone: " -> "phoneNumber"
          [] l = "Project Type: " -> "projectType"
          [] l = "Timeline: " -> "timeline"
          [] l = "Budget Range: $" -> "budget"
          [] l = "Color Preferences: " -> "colorPreferences"
          [] l = "Style Preferences: " -> "stylePreferences"
          [] l = "Request ID: " -> "id"]

\* the record field whose value the free text under a heading shows
BlockField ==
    [h \in {"Project Description", "Key Features Required", "Reference Websites"} |->
        CASE h = "Project Description" -> "designDescription"
          [] h = "Key Features Required" -> "keyFeatures"
          [] h = "Reference Websites" -> "referenceWebsites"]

\* the characters with codes 0-8, 11, 12, 14-31 and 127 among the model's
ControlChars == {"NUL", "BEL", "VT", "ESC", "DEL"}

\* v without its control characters, cut to its first 10,000 characters
RendererSanitized(v) ==
    LET kept == SelectSeq(v, LAMBDA c : c \notin ControlChars)
    IN [i \in 1..(IF Len(kept) < 10000 THEN Len(kept) ELSE 10000) |-> kept[i]]

\* text() call i of the document of submission s shows the sanitized value
\* of its record field
ShowsSanitizedField(s, i) ==
    LET call == doc[s][i]
    IN /\ call.label \in DOMAIN LineField
           => call.text = RendererSanitized(request[s][LineField[call.label]])
       /\ (call.label = "" /\ i > 1)
           => /\ doc[s][i - 1].label \in DOMAIN BlockField
              /\ call.text = RendererSanitized(request[s][BlockField[doc[s][i - 1].label]])

\* C27: every record text written into the document is the renderer
\* sanitization of the stored value: it has no control character, it is at
\* most 10,000 characters long, and it is the stored value without its
\* control characters cut to the first 10,000 characters
C27_DocumentTextSanitized ==
    \A s \in Subs : \A i \in DOMAIN doc[s] :
        /\ \A k \in 1..Len(doc[s][i].text) : doc[s][i].text[k] \notin ControlChars
        /\ Len(doc[s][i].text) <= 10000
        /\ ShowsSanitizedField(s, i)

\* a document whose name line differs from the stored name, which holds
\* control characters
C27_Witness ==
    \E s \in Subs :
        /\ Rendered(s)
        /\ \E k \in 1..Len(request[s].clientName) : request[s].clientName[k] \in ControlChars
        /\ \E i \in DOMAIN doc[s] :
              /\ doc[s][i].label = "Name: "
              /\ doc[s][i].text # request[s].clientName
              /\ doc[s][i].text # <<>>

\* C28: in every state, overlapping submissions included, every row of the
\* mirror has a record with the same id in the local ledger (the ledger is a
\* superset of the mirror)
C28_LedgerCoversMirror ==
    \A row \in mirror : \E i \in 1..Len(Ledger) : Ledger[i].id = row.id

\* C29, the button and the form: while a fetch is pending or its outcome is
\* being handled the button is disabled and reads "Submitting...", otherwise
\* it is enabled with its original label; the form is reset only by the step
\* that handles a success response, and every handled outcome enables the
\* button with the original label
C29_ButtonDisabledInFlight ==
    /\ [](IF page.fetch = "idle"
           THEN ~page.disabled /\ page.label = OriginalLabel
           ELSE page.disabled /\ page.label = "Submitting...")
    /\ [][(page'.form = "reset" /\ page.form # "reset")
             => (page.fetch = "ok" /\ response[page.sub] = SuccessResponse)]_vars
    /\ [][PageContinue => (~page'.disabled /\ page'.label = OriginalLabel)]_vars

\* C29: the disabled submit button is eventually enabled again with its
\* original label, after every outcome and also when the server never
\* responds
C29_ButtonEventuallyEnabled ==
    page.disabled ~> (~page.disabled /\ page.label = OriginalLabel)

====
